---- MODULE Spec2Model ----
(***************************************************************************)
(* librosa/onset.py: the onset strength estimator (onset_strength) and the *)
(* onset event detector (onset_detect).                                    *)
(*                                                                         *)
(* Array values are exact rationals [n |-> numerator, d |-> denominator]   *)
(* in lowest terms with d > 0; the IEEE results of a division by zero are  *)
(* the records with d = 0: 0/0 is NaN, +-1/0 the infinities.               *)
(***************************************************************************)
EXTENDS Integers, Sequences, FiniteSets

\* ------------------------------------------------------------- bounds
\* longest envelope the caller supplies
MaxLen == 2
\* longest signal, in blocks of BlockLen equal samples
MaxSig == 2
\* samples per block of the piecewise-constant signals
BlockLen == 256
\* most time frames of a spectral matrix the caller supplies
MaxFrames == 2
\* most frequency bins of a spectral matrix the caller supplies
MaxBins == 2

\* ------------------------------------------------------------- numbers
AbsInt(i) == IF i < 0 THEN -i ELSE i

SignInt(i) == IF i < 0 THEN -1 ELSE IF i > 0 THEN 1 ELSE 0

RECURSIVE GCD(_, _)
GCD(a, b) == IF b = 0 THEN a ELSE GCD(b, a % b)

LCM(a, b) == (a \div GCD(a, b)) * b

NaN == [n |-> 0, d |-> 0]

IsNaN(a) == a.d = 0 /\ a.n = 0

IsFinite(a) == a.d > 0

\* the rational num/den (den # 0) in lowest terms
Rat(num, den) ==
    LET g == GCD(AbsInt(num), AbsInt(den))
        s == IF den < 0 THEN -1 ELSE 1
    IN  [n |-> s * (num \div g), d |-> s * (den \div g)]

RInt(i) == [n |-> i, d |-> 1]

Zero == RInt(0)

One == RInt(1)

\* a - b; NaN and the infinities follow IEEE 754
RSub(a, b) ==
    IF IsFinite(a) /\ IsFinite(b)
    THEN LET l == LCM(a.d, b.d)
         IN  Rat(a.n * (l \div a.d) - b.n * (l \div b.d), l)
    ELSE IF IsNaN(a) \/ IsNaN(b) THEN NaN
    ELSE IF IsFinite(b) THEN a
    ELSE IF IsFinite(a) THEN [n |-> -b.n, d |-> 0]
    ELSE IF a.n = b.n THEN NaN ELSE a

RAdd(a, b) == RSub(a, RSub(Zero, b))

\* a * b for finite a, b
RMul(a, b) ==
    LET g1 == GCD(AbsInt(a.n), b.d)
        g2 == GCD(AbsInt(b.n), a.d)
    IN  Rat((a.n \div g1) * (b.n \div g2), (a.d \div g2) * (b.d \div g1))

\* a / b; x/0 is NaN for x = 0 and an infinity otherwise
RDiv(a, b) ==
    IF IsFinite(a) /\ IsFinite(b)
    THEN IF b.n = 0
         THEN [n |-> SignInt(a.n), d |-> 0]
         ELSE RMul(a, [n |-> SignInt(b.n) * b.d, d |-> AbsInt(b.n)])
    ELSE IF IsNaN(a) \/ IsNaN(b) THEN NaN
    ELSE IF IsFinite(b) THEN [n |-> a.n * (IF b.n < 0 THEN -1 ELSE 1), d |-> 0]
    ELSE IF IsFinite(a) THEN Zero
    ELSE NaN

\* a < b; every comparison with NaN is false
RLess(a, b) ==
    IF IsNaN(a) \/ IsNaN(b) THEN FALSE
    ELSE IF a.d = b.d THEN a.n < b.n
    ELSE IF IsFinite(a) /\ IsFinite(b)
    THEN LET l == LCM(a.d, b.d)
         IN  a.n * (l \div a.d) < b.n * (l \div b.d)
    ELSE IF IsFinite(a) THEN b.n > 0
    ELSE IF IsFinite(b) THEN a.n < 0
    ELSE a.n < b.n

RLeq(a, b) == ~IsNaN(a) /\ ~IsNaN(b) /\ ~RLess(b, a)

\* ------------------------------------------------------------- arrays
\* an array as stored: every element computed once
Arr(x) == x \o <<>>

Zeros(k) == Arr([i \in 1..k |-> Zero])

RECURSIVE FoldMin(_, _, _)
FoldMin(x, i, best) ==
    IF i > Len(x) THEN best
    ELSE FoldMin(x, i + 1, IF RLess(x[i], best) THEN x[i] ELSE best)

RECURSIVE FoldMax(_, _, _)
FoldMax(x, i, best) ==
    IF i > Len(x) THEN best
    ELSE FoldMax(x, i + 1, IF RLess(best, x[i]) THEN x[i] ELSE best)

\* ndarray.min(): NaN if any element is NaN
ArrayMin(x) ==
    IF \E i \in 1..Len(x) : IsNaN(x[i]) THEN NaN ELSE FoldMin(x, 2, x[1])

\* ndarray.max(): NaN if any element is NaN
ArrayMax(x) ==
    IF \E i \in 1..Len(x) : IsNaN(x[i]) THEN NaN ELSE FoldMax(x, 2, x[1])

\* ndarray.any(): some element is not zero (NaN is not zero)
ArrayAny(x) == \E i \in 1..Len(x) : x[i] # Zero

\* Python's optional arguments: None, or a value
None == [some |-> FALSE]

Some(v) == [some |-> TRUE, val |-> v]

\* ------------------------------------------------------------- collaborators
\* librosa.feature.melspectrogram(y, sr, **kwargs): a non-negative matrix
\* (frequency bin x time frame) with one frame per hop_length samples
\* (its own default hop is 512); y is given by its blocks of BlockLen samples.
melspectrogram(y, sr_, kwargs) ==
    LET hop    == IF "hop_length" \in DOMAIN kwargs THEN kwargs["hop_length"] ELSE 512
        frames == 1 + (Len(y) * BlockLen) \div hop
        at(t)  == LET b == ((t - 1) * hop) \div BlockLen + 1
                  IN  y[IF b > Len(y) THEN Len(y) ELSE b]
    IN  Arr([f \in 1..MaxBins |-> Arr([t \in 1..frames |-> RInt(at(t) * at(t) * f)])])

RECURSIVE ILog2(_)
ILog2(v) == IF v < 2 THEN 0 ELSE 1 + ILog2(v \div 2)

\* librosa.core.logamplitude(S): a monotonic, shape-preserving scaling to
\* decibels (about 3 dB per doubling), floored at amplitude 1
logamplitude(S_) ==
    Arr([f \in 1..Len(S_) |-> Arr([t \in 1..Len(S_[f]) |->
        RInt(3 * ILog2(IF RLess(S_[f][t], One) THEN 1 ELSE S_[f][t].n \div S_[f][t].d))])])

\* librosa.util.peak_pick(x, **kwargs): a deterministic function of its
\* arguments; its value is represented by the call itself
peak_pick(x, kwargs) == [x |-> x, kind |-> "peaks", kw |-> kwargs]

\* ------------------------------------------------------------- onset_strength
\* np.abs(S)
MatAbs(S_) ==
    Arr([f \in 1..Len(S_) |-> Arr([t \in 1..Len(S_[f]) |->
        IF RLess(S_[f][t], Zero) THEN RSub(Zero, S_[f][t]) ELSE S_[f][t]])])

\* kwargs.get(key, default)
KwGet(kwargs, key, default) ==
    IF key \in DOMAIN kwargs THEN kwargs[key] ELSE default

\* np.diff(S, axis=1): one column fewer, D[f, t] = S[f, t+1] - S[f, t]
Diff(S_) ==
    Arr([f \in 1..Len(S_) |->
        Arr([t \in 1..(IF Len(S_[f]) = 0 THEN 0 ELSE Len(S_[f]) - 1) |->
            RSub(S_[f][t + 1], S_[f][t])])])

\* mutant: the zero column is appended, ([0, 0], [0, 1])
PadColumnTrailing(D) ==
    Arr([f \in 1..Len(D) |-> D[f] \o <<Zero>>])

\* np.pad(D, ([0, 0], [1, 0]), mode='constant'): one leading zero column
PadColumn(D) ==
    Arr([f \in 1..Len(D) |-> <<Zero>> \o D[f]])

\* mutant: negative differences are kept
ClipNothing(D) == D

\* np.maximum(0.0, D)
ClipNegative(D) ==
    Arr([f \in 1..Len(D) |-> Arr([t \in 1..Len(D[f]) |->
        IF RLess(D[f][t], Zero) THEN Zero ELSE D[f][t]])])

RECURSIVE SeqSum(_)
SeqSum(x) == IF x = <<>> THEN Zero ELSE RAdd(x[1], SeqSum(Tail(x)))

\* np.mean over a column
Mean(col) == RDiv(SeqSum(col), RInt(Len(col)))

RECURSIVE Insert(_, _)
Insert(v, x) ==
    IF x = <<>> THEN <<v>>
    ELSE IF RLeq(v, x[1]) THEN <<v>> \o x
    ELSE <<x[1]>> \o Insert(v, Tail(x))

RECURSIVE Sorted(_)
Sorted(x) == IF x = <<>> THEN <<>> ELSE Insert(x[1], Sorted(Tail(x)))

\* np.median over a column
Median(col) ==
    LET s == Sorted(col)
        k == Len(col)
    IN  IF k % 2 = 1 THEN s[(k + 1) \div 2]
        ELSE RDiv(RAdd(s[k \div 2], s[k \div 2 + 1]), RInt(2))

\* aggregate(D, axis=0): one value per time frame; None selects np.mean
Aggregate(aggregate_, D) ==
    Arr([t \in 1..Len(D[1]) |->
        LET col == Arr([f \in 1..Len(D) |-> D[f][t]])
        IN  IF aggregate_ = "median" THEN Median(col) ELSE Mean(col)])

\* mutant: int(n_fft / hop_length)
CenteringPadFull(n_fft_, hop_) == n_fft_ \div hop_

\* int(n_fft / (2 * hop_length))
CenteringPad(n_fft_, hop_) == n_fft_ \div (2 * hop_)

\* np.pad(env, (k, 0), mode='constant'): k leading zeros
PadLeft(env, k) == Zeros(k) \o env

\* scipy.signal.lfilter([1.0, -1.0], [1.0, -0.99], x):
\* out[i] = x[i] - x[i-1] + 0.99 out[i-1]
RECURSIVE LFilter(_, _, _, _)
LFilter(x, i, prevOut, acc) ==
    IF i > Len(x) THEN acc
    ELSE LET out == RAdd(RSub(x[i], IF i = 1 THEN Zero ELSE x[i - 1]),
                         RMul(Rat(99, 100), prevOut))
         IN  LFilter(x, i + 1, out, Append(acc, out))

Detrend(x) == LFilter(x, 1, Zero, <<>>)

\* the spectral flux of S: difference, alignment pad, clip, aggregate
SpectralFlux(S_, aggregate_) ==
    Aggregate(aggregate_, ClipNegative(PadColumn(Diff(S_))))

\* neither S nor y: the ValueError of onset_strength
StrengthMissingInput(y_, S_) == ~S_.some /\ ~y_.some

\* onset_strength(y, sr, S, detrend, centering, feature=None, aggregate, **kwargs)
onset_strength(y_, sr_, S_, detrend_, centering_, aggregate_, kwargs) ==
    IF StrengthMissingInput(y_, S_)
    THEN [raised |-> TRUE, featureCalls |-> 0, S |-> <<>>, raw |-> <<>>,
          pad |-> 0, ret |-> <<>>]
    ELSE LET Sm   == IF S_.some THEN S_.val
                     ELSE logamplitude(MatAbs(melspectrogram(y_.val, sr_, kwargs)))
             n_fft_  == KwGet(kwargs, "n_fft", 2048)
             hop_    == KwGet(kwargs, "hop_length", 64)
             raw     == SpectralFlux(Sm, aggregate_)
             pad     == IF centering_ THEN CenteringPad(n_fft_, hop_) ELSE 0
             centred == IF centering_ THEN PadLeft(raw, pad) ELSE raw
             out     == IF detrend_ THEN Detrend(centred) ELSE centred
         IN  [raised |-> FALSE, featureCalls |-> IF S_.some THEN 0 ELSE 1,
              S |-> Sm, raw |-> raw, pad |-> pad, ret |-> out]

\* ------------------------------------------------------------- onset_detect
Params == {"pre_max", "post_max", "pre_avg", "post_avg", "wait", "delta"}

EmptyKw == [p \in {} |-> Zero]

\* mutant: the signal is required even when an envelope is given
DetectMissingInputNoSignal(y_, onset_envelope_) == ~y_.some

\* neither onset_envelope nor y: the ValueError of onset_detect
DetectMissingInput(y_, onset_envelope_) == ~onset_envelope_.some /\ ~y_.some

\* mutant: hop_length is not forwarded to the estimator
DetectEnvelopeDefaultHop(y_, sr_, hop_) ==
    onset_strength(y_, sr_, None, FALSE, TRUE, "mean", [k \in {} |-> 0])

\* onset_strength(y=y, sr=sr, hop_length=hop_length)
DetectEnvelope(y_, sr_, hop_) ==
    onset_strength(y_, sr_, None, FALSE, TRUE, "mean",
                   [k \in {"hop_length"} |-> hop_])

\* mutant: only an empty envelope short-circuits
HasOnsetsNonEmpty(x) == Len(x) > 0

\* onset_envelope.any()
HasOnsets(x) == ArrayAny(x)

\* mutant: the maximum is taken before the minimum is subtracted
NormalizePreMax(x) ==
    LET lo == ArrayMin(x)
        hi == ArrayMax(x)
    IN  Arr([i \in 1..Len(x) |-> RDiv(RSub(x[i], lo), hi)])

\* onset_envelope -= onset_envelope.min(); onset_envelope /= onset_envelope.max()
Normalize(x) ==
    LET lo      == ArrayMin(x)
        shifted == Arr([i \in 1..Len(x) |-> RSub(x[i], lo)])
        hi      == ArrayMax(shifted)
    IN  Arr([i \in 1..Len(x) |-> RDiv(shifted[i], hi)])

\* mutant: kwargs[key] = value, the caller's value overwritten
SetDefaultOverwrite(kwargs, key, value) ==
    [p \in DOMAIN kwargs \cup {key} |-> IF p = key THEN value ELSE kwargs[p]]

\* kwargs.setdefault(key, value)
SetDefault(kwargs, key, value) ==
    IF key \in DOMAIN kwargs THEN kwargs
    ELSE [p \in DOMAIN kwargs \cup {key} |-> IF p = key THEN value ELSE kwargs[p]]

\* the six setdefault calls: c*sr/hop_length with c = 0.03, 0.00, 0.10, 0.10, 0.03
PeakPickParameters(kwargs, sr_, hop_) ==
    LET k1 == SetDefault(kwargs, "pre_max", Rat(3 * sr_, 100 * hop_))
        k2 == SetDefault(k1, "post_max", Rat(0 * sr_, 100 * hop_))
        k3 == SetDefault(k2, "pre_avg", Rat(10 * sr_, 100 * hop_))
        k4 == SetDefault(k3, "post_avg", Rat(10 * sr_, 100 * hop_))
        k5 == SetDefault(k4, "wait", Rat(3 * sr_, 100 * hop_))
    IN  SetDefault(k5, "delta", Rat(6, 100))

NoOnsets == [x |-> <<>>, kind |-> "empty", kw |-> EmptyKw]

NoResult == [x |-> <<>>, kind |-> "none", kw |-> EmptyKw]

\* onset_detect(y, sr, onset_envelope, hop_length, **kwargs).  buf is the
\* envelope array as the call leaves it: the caller's own array when
\* onset_envelope was passed.
onset_detect(y_, sr_, onset_envelope_, hop_, kwargs) ==
    IF DetectMissingInput(y_, onset_envelope_)
    THEN [raised |-> TRUE, featureCalls |-> 0, ret |-> NoResult,
          estimatorCalls |-> 0, pickCalls |-> 0, normalized |-> FALSE,
          buf |-> <<>>, pickX |-> <<>>, pickKw |-> EmptyKw]
    ELSE LET est == IF onset_envelope_.some
                    THEN [raised |-> FALSE, featureCalls |-> 0,
                          ret |-> onset_envelope_.val]
                    ELSE DetectEnvelope(y_, sr_, hop_)
             calls == IF onset_envelope_.some THEN 0 ELSE 1
         IN  IF est.raised
             THEN [raised |-> TRUE, featureCalls |-> est.featureCalls,
                   ret |-> NoResult, estimatorCalls |-> calls,
                   pickCalls |-> 0, normalized |-> FALSE, buf |-> <<>>,
                   pickX |-> <<>>, pickKw |-> EmptyKw]
             ELSE IF ~HasOnsets(est.ret)
             THEN [raised |-> FALSE, featureCalls |-> est.featureCalls,
                   ret |-> NoOnsets, estimatorCalls |-> calls,
                   pickCalls |-> 0, normalized |-> FALSE, buf |-> est.ret,
                   pickX |-> <<>>, pickKw |-> EmptyKw]
             ELSE LET x  == Normalize(est.ret)
                      kp == PeakPickParameters(kwargs, sr_, hop_)
                  IN  [raised |-> FALSE, featureCalls |-> est.featureCalls,
                       ret |-> peak_pick(x, kp), estimatorCalls |-> calls,
                       pickCalls |-> 1, normalized |-> TRUE, buf |-> x,
                       pickX |-> x, pickKw |-> kp]

\* ------------------------------------------------------------- the caller
VARIABLES
    y,           \* the caller's signal, or None
    sr,          \* sampling rate
    hop_length,  \* hop length passed to onset_detect
    kw,          \* peak-picking keyword arguments passed to onset_detect
    S,           \* the caller's spectral matrix, or None
    detrend, centering, aggregate,  \* options passed to onset_strength
    skw,         \* keyword arguments passed to onset_strength
    o_env,       \* the caller's envelope array, or None
    strength,    \* the last call of onset_strength
    det,         \* the last call of onset_detect
    firstDet,    \* the first call of onset_detect on the array now in o_env
    sigDet       \* the last call of onset_detect without an envelope

vars == <<y, sr, hop_length, kw, S, detrend, centering, aggregate, skw,
          o_env, strength, det, firstDet, sigDet>>

inputs == <<y, sr, hop_length, kw, S, detrend, centering, aggregate, skw>>

RatSeqs(values, lo, hi) ==
    UNION {[1..k -> {RInt(v) : v \in values}] : k \in lo..hi}

\* the signals: 1..MaxSig blocks
Signals == UNION {[1..k -> {0, 3}] : k \in 1..MaxSig}

\* the envelopes a caller supplies: all-zero, constant and varying ones
Envelopes == RatSeqs({-1, 0, 2}, 0, MaxLen)

\* the spectral matrices a caller supplies
Matrices ==
    UNION {[1..f -> RatSeqs({0, 2}, t, t)] : f \in 1..MaxBins, t \in 0..MaxFrames}

\* the caller's values for the peak-picking parameters
CallerValue(p) ==
    CASE p = "pre_max"  -> RInt(5)
      [] p = "post_max" -> RInt(1)
      [] p = "pre_avg"  -> RInt(7)
      [] p = "post_avg" -> RInt(3)
      [] p = "wait"     -> RInt(2)
      [] p = "delta"    -> Rat(1, 10)

CallerKw == {[p \in D |-> CallerValue(p)] : D \in SUBSET Params}

StrengthKw ==
    {[k \in D |-> IF k = "n_fft" THEN n ELSE h] :
        D \in SUBSET {"n_fft", "hop_length"}, n \in {1024}, h \in {512}}

NoDetect ==
    [called |-> FALSE, yArg |-> FALSE, envArg |-> FALSE, envBefore |-> <<>>,
     r |-> [raised |-> FALSE, featureCalls |-> 0, ret |-> NoResult,
            estimatorCalls |-> 0, pickCalls |-> 0, normalized |-> FALSE,
            buf |-> <<>>, pickX |-> <<>>, pickKw |-> EmptyKw]]

NoStrength ==
    [called |-> FALSE,
     r |-> [raised |-> FALSE, featureCalls |-> 0, S |-> <<>>, raw |-> <<>>,
            pad |-> 0, ret |-> <<>>]]

InitCalls ==
    /\ strength = NoStrength
    /\ det = NoDetect
    /\ firstDet = NoDetect
    /\ sigDet = NoDetect

ProbeSignals == {None, Some(<<0, 3>>)}

ProbeEnvelopes == {None, Some(<<RInt(0), RInt(2)>>)}

ProbeMatrix == <<<<RInt(0), RInt(2)>>, <<RInt(2), RInt(0)>>>>

\* a session of the detector: the estimator is called as in the module's
\* example, onset_strength(y, sr=sr, hop_length=hop_length).  The inputs are
\* swept one family at a time (envelopes, signals, keyword arguments), the
\* others held at probe values.
Init ==
    /\ sr \in {22050, 44100}
    /\ hop_length \in {64, 512}
    /\ \/ /\ o_env \in {Some(e) : e \in Envelopes}
          /\ y \in ProbeSignals
          /\ kw \in {[p \in D |-> CallerValue(p)] : D \in {{}, Params}}
          /\ S = None
       \/ /\ y \in {None} \cup {Some(s) : s \in Signals}
          /\ o_env \in ProbeEnvelopes
          /\ kw \in {[p \in D |-> CallerValue(p)] : D \in {{}, Params}}
          /\ S \in {None, Some(ProbeMatrix)}
       \/ /\ kw \in CallerKw
          /\ y \in ProbeSignals
          /\ o_env \in ProbeEnvelopes
          /\ S = None
    /\ detrend = FALSE
    /\ centering = TRUE
    /\ aggregate = "mean"
    /\ skw = [k \in {"hop_length"} |-> hop_length]
    /\ InitCalls

\* one call of the estimator with any of its options
InitStrength ==
    /\ sr = 22050
    /\ hop_length = 64
    /\ kw = EmptyKw
    /\ o_env = None
    /\ y \in {None} \cup {Some(s) : s \in Signals}
    /\ S \in {None} \cup {Some(m) : m \in Matrices}
    /\ S.some => y \in ProbeSignals
    /\ detrend \in BOOLEAN
    /\ centering \in BOOLEAN
    /\ aggregate \in {"mean", "median"}
    /\ skw \in StrengthKw
    /\ InitCalls

\* o_env = onset_strength(y, sr, S, detrend, centering, aggregate=aggregate, **skw)
OnsetStrength ==
    \E r \in {onset_strength(y, sr, S, detrend, centering, aggregate, skw)} :
        /\ strength' = [called |-> TRUE, r |-> r]
        /\ o_env' = IF r.raised THEN o_env ELSE Some(r.ret)
        /\ firstDet' = IF r.raised THEN firstDet ELSE NoDetect
        /\ UNCHANGED <<inputs, det, sigDet>>

\* onset_detect(y, sr, onset_envelope=o_env, hop_length, **kw), with y and
\* onset_envelope passed or left out
OnsetDetect(passY, passEnv) ==
    LET yA  == IF passY THEN y ELSE None
        eA  == IF passEnv THEN o_env ELSE None
    IN  \E r \in {onset_detect(yA, sr, eA, hop_length, kw)} :
        LET rec == [called |-> TRUE, yArg |-> yA.some, envArg |-> eA.some,
                    envBefore |-> IF eA.some THEN eA.val ELSE <<>>, r |-> r]
        IN
        /\ det' = rec
        /\ o_env' = IF eA.some /\ ~r.raised THEN Some(r.buf) ELSE o_env
        /\ firstDet' = IF eA.some /\ ~firstDet.called THEN rec ELSE firstDet
        /\ sigDet' = IF eA.some THEN sigDet ELSE rec
        /\ UNCHANGED <<inputs, strength>>

Next ==
    \/ OnsetStrength
    \/ \E passY \in BOOLEAN, passEnv \in BOOLEAN : OnsetDetect(passY, passEnv)

Spec == Init /\ [][Next]_vars

NextStrength == OnsetStrength

SpecStrength == InitStrength /\ [][NextStrength]_vars

\* ------------------------------------------------------------- claims
AllZero(x) == \A i \in 1..Len(x) : x[i] = Zero

NonConstant(x) == \E i, j \in 1..Len(x) : x[i] # x[j]

InUnit(a) == RLeq(Zero, a) /\ RLeq(a, One)

\* C1: ValueError is raised exactly when onset_detect gets neither
\* onset_envelope nor y, and when onset_strength gets neither S nor y; it is
\* raised before the feature extractor, the estimator or the peak picker is
\* called and before any output exists.
C1_InvalidArgumentOnlyWithoutInput ==
    /\ det.called =>
        /\ det.r.raised <=> (~det.yArg /\ ~det.envArg)
        /\ det.r.raised =>
            /\ det.r.estimatorCalls = 0
            /\ det.r.featureCalls = 0
            /\ det.r.pickCalls = 0
            /\ det.r.ret = NoResult
    /\ strength.called =>
        /\ strength.r.raised <=> (~S.some /\ ~y.some)
        /\ strength.r.raised =>
            /\ strength.r.featureCalls = 0
            /\ strength.r.ret = <<>>

C1_Witness ==
    /\ det.called /\ det.r.raised
    /\ strength.called /\ strength.r.raised
    /\ sigDet.called

\* C2: an all-zero envelope (of any length, 0 included) makes onset_detect
\* return the empty onset set: no error, no normalization, no call of the
\* peak picker, whatever sr, hop_length and the keyword arguments are.
C2_AllZeroEnvelopeGivesNoOnsets ==
    (det.called /\ det.envArg /\ AllZero(det.envBefore)) =>
        /\ ~det.r.raised
        /\ det.r.ret = NoOnsets
        /\ ~det.r.normalized
        /\ det.r.pickCalls = 0
        /\ det.r.buf = det.envBefore

C2_Witness ==
    /\ det.called /\ det.envArg
    /\ det.envBefore = <<Zero, Zero>>
    /\ det.r.ret = NoOnsets
    /\ DOMAIN kw = Params

\* C3: whenever onset_detect reaches the peak picker (the envelope is not
\* all zero), the envelope it hands over has every value in [0, 1], minimum
\* 0 and maximum exactly 1; the division is never by zero.
C3_NormalizedEnvelopeInUnitRange ==
    (det.called /\ det.r.pickCalls = 1) =>
        /\ \A i \in 1..Len(det.r.pickX) : InUnit(det.r.pickX[i])
        /\ ArrayMin(det.r.pickX) = Zero
        /\ ArrayMax(det.r.pickX) = One

\* C4: onset_detect has no side effect: the caller's envelope array holds
\* after the call the values it held before.  (The estimator has none
\* either: no step assigns S or y.)
C4_CallerEnvelopeUnchanged ==
    (det.called /\ det.envArg) => det.r.buf = det.envBefore

\* the defaults of C5: 0.03*sr/hop_length, 0, 0.10*sr/hop_length, 0.06
C5_Default(p) ==
    CASE p = "pre_max"  -> Rat(3 * sr, 100 * hop_length)
      [] p = "post_max" -> Zero
      [] p = "pre_avg"  -> Rat(sr, 10 * hop_length)
      [] p = "post_avg" -> Rat(sr, 10 * hop_length)
      [] p = "wait"     -> Rat(3 * sr, 100 * hop_length)
      [] p = "delta"    -> Rat(3, 50)

\* C5: the peak picker receives, for each of the six parameters, the
\* caller's value if the caller gave one and otherwise the default derived
\* from sr and hop_length (sr = 22050, hop_length = 64: pre_max = wait =
\* 661.5/64, pre_avg = 2205/64); no parameter changes another.
C5_PeakPickParametersSetIfAbsent ==
    (det.called /\ det.r.pickCalls = 1) =>
        /\ DOMAIN det.r.pickKw = Params
        /\ \A p \in Params :
            det.r.pickKw[p] = IF p \in DOMAIN kw THEN kw[p] ELSE C5_Default(p)
        /\ (sr = 22050 /\ hop_length = 64 /\ DOMAIN kw = {}) =>
            /\ det.r.pickKw["pre_max"] = Rat(6615, 640)
            /\ det.r.pickKw["wait"] = Rat(6615, 640)
            /\ det.r.pickKw["pre_avg"] = Rat(2205, 64)

C5_Witness ==
    /\ det.called /\ det.r.pickCalls = 1
    /\ DOMAIN kw = {"pre_avg", "delta"}
    /\ sr = 22050 /\ hop_length = 64
    /\ det.r.pickKw["pre_avg"] = RInt(7)
    /\ det.r.pickKw["pre_max"] = Rat(1323, 128)

\* C6: onset_detect(y, sr, hop_length) returns what onset_detect returns on
\* the envelope onset_strength(y, sr, hop_length=hop_length); with an
\* envelope given the estimator is not called and y does not matter.
C6_SignalAndEnvelopePathsAgree ==
    /\ ( /\ sigDet.called /\ ~sigDet.r.raised
         /\ strength.called /\ ~strength.r.raised /\ ~S.some
         /\ firstDet.called ) =>
        firstDet.r.ret = sigDet.r.ret
    /\ (det.called /\ det.envArg) =>
        /\ det.r.estimatorCalls = 0
        /\ det.r.featureCalls = 0
        /\ det.r.ret = onset_detect(None, sr, Some(det.envBefore), hop_length, kw).ret
        /\ det.r.ret = onset_detect(y, sr, Some(det.envBefore), hop_length, kw).ret

C6_Witness ==
    /\ sigDet.called /\ ~sigDet.r.raised /\ sigDet.r.pickCalls = 1
    /\ strength.called /\ ~strength.r.raised /\ ~S.some
    /\ firstDet.called /\ firstDet.r.pickCalls = 1
    /\ firstDet.envBefore = strength.r.ret

\* max(0, S[f, t] - S[f, t-1]) (t counted from 1 here, t >= 2)
C7_Rise(f, t) ==
    LET d == RSub(S.val[f][t], S.val[f][t - 1])
    IN  IF RLess(d, Zero) THEN Zero ELSE d

C8_EnvelopeNonNegative ==
    ( /\ strength.called /\ ~strength.r.raised
      /\ \A f \in 1..Len(strength.r.S) : \A t \in 1..Len(strength.r.S[f]) :
            RLeq(Zero, strength.r.S[f][t]) ) =>
        /\ \A t \in 1..Len(strength.r.raw) : RLeq(Zero, strength.r.raw[t])
        /\ ~detrend =>
            \A t \in 1..Len(strength.r.ret) : RLeq(Zero, strength.r.ret[t])

C8_Witness ==
    /\ strength.called /\ S.some /\ ~detrend /\ centering
    /\ \E f \in 1..Len(S.val) : \E t \in 2..Len(S.val[f]) :
            RLess(S.val[f][t], S.val[f][t - 1])
    /\ \E t \in 1..Len(strength.r.raw) : RLess(Zero, strength.r.raw[t])

\* the n_fft, hop_length and pad width C9 names
C9_Pad ==
    LET nfft == IF "n_fft" \in DOMAIN skw THEN skw["n_fft"] ELSE 2048
        hop  == IF "hop_length" \in DOMAIN skw THEN skw["hop_length"] ELSE 64
    IN  IF centering THEN nfft \div (2 * hop) ELSE 0

\* the result is k zeros followed by the uncentered envelope
C9_ZerosThenEnvelope(k) ==
    /\ Len(strength.r.ret) = Len(strength.r.raw) + k
    /\ \A i \in 1..k : strength.r.ret[i] = Zero
    /\ \A i \in 1..Len(strength.r.raw) : strength.r.ret[k + i] = strength.r.raw[i]

C10_NormalizationIdempotent ==
    ( /\ firstDet.called /\ NonConstant(firstDet.envBefore)
      /\ det.called /\ det.envArg ) =>
        /\ Normalize(firstDet.r.pickX) = firstDet.r.pickX
        /\ det.r.pickCalls = 1
        /\ det.r.pickX = firstDet.r.pickX
        /\ det.r.ret = firstDet.r.ret

C10_Witness ==
    /\ firstDet.called /\ NonConstant(firstDet.envBefore)
    /\ det.called /\ det.envArg
    /\ det.envBefore = firstDet.r.pickX
    /\ det.envBefore # firstDet.envBefore

====
